---- MODULE Spec2Model ----
(***************************************************************************)
(* DINE_KOT_SYNC: the SyncService launcher (SyncService.py), the database  *)
(* gateway (sync/sql_helper.py) and the HTTP endpoints (sync/views.py).    *)
(*                                                                         *)
(* Strings are sequences of atoms: an atom is a word, or one of the        *)
(* characters " ", "#", "=" that the code splits and strips on.  The empty *)
(* Python string is <<>>.  Time is counted in days.                        *)
(***************************************************************************)
EXTENDS Integers, Sequences, FiniteSets, TLC

VARIABLES phase, environ, envFile, configFile,
          PAIR_PASSWORD, JWT_SECRET, JWT_ALGO,
          now, held, exeExists, procs, launched, resp, net, pair

vars == <<phase, environ, envFile, configFile, PAIR_PASSWORD, JWT_SECRET,
          JWT_ALGO, now, held, exeExists, procs, launched, resp, net, pair>>

(* ------------------------------ bounds --------------------------------- *)
MaxNow == 8
MaxAddrs == 2
MaxReqs == 2

(* ------------------------------ strings -------------------------------- *)
RECURSIVE LStrip(_)
LStrip(s) == IF s # <<>> /\ Head(s) = " " THEN LStrip(Tail(s)) ELSE s

RECURSIVE RStrip(_)
RStrip(s) == IF s # <<>> /\ s[Len(s)] = " " THEN RStrip(SubSeq(s, 1, Len(s) - 1)) ELSE s

\* str.strip()
Strip(s) == RStrip(LStrip(s))

\* position of the first atom c in s, 0 when there is none
RECURSIVE FindFrom(_, _, _)
FindFrom(s, c, i) == IF i > Len(s) THEN 0
                     ELSE IF s[i] = c THEN i ELSE FindFrom(s, c, i + 1)

Find(s, c) == FindFrom(s, c, 1)

\* s.split(c, 1)[0]
SplitHead(s, c) == IF Find(s, c) = 0 THEN s ELSE SubSeq(s, 1, Find(s, c) - 1)

\* s.split(c, 1)[1], for s that contains c
SplitTail(s, c) == SubSeq(s, Find(s, c) + 1, Len(s))

\* SyncService._strip_comment
StripComment(s) == Strip(SplitHead(s, "#"))

(* --------------------------- process environment ----------------------- *)
EnvKeys == {"PAIR_PASSWORD", "JWT_SECRET", "JWT_ALGO", "DB_DSN", "DB_UID", "DB_PWD"}

Unset == [set |-> FALSE, v |-> <<>>]
EnvVal(s) == [set |-> TRUE, v |-> s]

\* os.getenv(k, d)
GetEnv(env, k, d) == IF env[k].set THEN env[k].v ELSE d

\* os.environ[k] = v; names the program never reads are not tracked
SetEnv(env, k, v) == IF Len(k) = 1 /\ k[1] \in EnvKeys
                     THEN [env EXCEPT ![k[1]] = EnvVal(v)]
                     ELSE env

\* one line of the .env file, SyncService.load_env lines 56-61
LoadEnvLine(env, rawline) ==
    LET line == Strip(rawline) IN
    IF line = <<>> \/ Head(line) = "#" \/ Find(line, "=") = 0
    THEN env
    ELSE SetEnv(env, Strip(SplitHead(line, "=")),
                StripComment(Strip(SplitTail(line, "="))))

RECURSIVE LoadEnvLines(_, _)
LoadEnvLines(env, lines) ==
    IF lines = <<>> THEN env
    ELSE LoadEnvLines(LoadEnvLine(env, Head(lines)), Tail(lines))

\* SyncService.load_env: a missing file loads nothing
load_env(env, file) == IF file.exists THEN LoadEnvLines(env, file.lines) ELSE env

(* ------------------------------ config.json ---------------------------- *)
CfgKeys == {"dsn", "db_uid", "db_pwd"}
Absent == [has |-> FALSE, v |-> <<>>]
CfgVal(s) == [has |-> TRUE, v |-> s]

\* SyncService.load_config: the "dsn" entry after defaults, update and strip
load_config_dsn(cfg) ==
    LET raw == IF cfg.exists /\ cfg.keys["dsn"].has THEN cfg.keys["dsn"].v ELSE <<>>
    IN IF raw # <<>> THEN StripComment(raw) ELSE raw

\* sql_helper._get_config followed by config.get(key, fallback)
ConfigGet(cfg, key, fallback) ==
    IF cfg.exists
    THEN (IF cfg.keys[key].has THEN cfg.keys[key].v ELSE fallback)
    ELSE fallback

FallbackDsn == <<"pktc">>
FallbackUid == <<"dba">>
FallbackPwd == <<"sql">>
LauncherUid == <<"dba">>
LauncherPwd == <<"(*$^)">>

\* SyncService.main lines 123-131: the environment the server runs with
MainEnv(env, file, cfg) ==
    LET e1  == load_env(env, file)
        dsn == GetEnv(e1, "DB_DSN", load_config_dsn(cfg))
        e2  == [e1 EXCEPT !["DB_DSN"] = EnvVal(StripComment(dsn))]
        e3  == [e2 EXCEPT !["DB_UID"] = EnvVal(GetEnv(e2, "DB_UID", LauncherUid))]
    IN  [e3 EXCEPT !["DB_PWD"] = EnvVal(GetEnv(e3, "DB_PWD", LauncherPwd))]

\* sql_helper.get_connection lines 59-64: the parameters handed to connect
ConnParams(env, cfg) ==
    [dsn |-> GetEnv(env, "DB_DSN", ConfigGet(cfg, "dsn", FallbackDsn)),
     uid |-> GetEnv(env, "DB_UID", ConfigGet(cfg, "db_uid", FallbackUid)),
     pwd |-> GetEnv(env, "DB_PWD", ConfigGet(cfg, "db_pwd", FallbackPwd))]

NoParams == [dsn |-> <<>>, uid |-> <<>>, pwd |-> <<>>]

(* --------------------------- views module constants -------------------- *)
DefaultPairPassword == <<"IMC-MOBILE">>
DefaultJwtSecret == <<"dev-secret-change-me">>
DefaultJwtAlgo == <<"HS256">>

\* views.py line 20
PairPasswordOf(env) == GetEnv(env, "PAIR_PASSWORD", DefaultPairPassword)

\* views.py line 23: os.getenv(..) or default
JwtSecretOf(env) ==
    IF env["JWT_SECRET"].set /\ env["JWT_SECRET"].v # <<>>
    THEN env["JWT_SECRET"].v ELSE DefaultJwtSecret

\* views.py line 24
JwtAlgoOf(env) == GetEnv(env, "JWT_ALGO", DefaultJwtAlgo)

(* ------------------------------ JSON bodies ---------------------------- *)
\* a JSON value: t is "missing" (key absent), "null", "str" or "num"
JMissing == [t |-> "missing", s |-> <<>>, n |-> 0]
JNull == [t |-> "null", s |-> <<>>, n |-> 0]
JStr(x) == [t |-> "str", s |-> x, n |-> 0]
JNum(k) == [t |-> "num", s |-> <<>>, n |-> k]

\* Python truthiness of data.get(key)
Truthy(j) == \/ j.t = "str" /\ j.s # <<>>
             \/ j.t = "num" /\ j.n # 0

\* a request body: kind is "invalid" (json.loads raises), "empty" (b"" so
\* that b"{}" is parsed), "object" or "nonobject" (a list, a number, null)
Body(kind, u, p) == [kind |-> kind, userid |-> u, password |-> p]
NoBody == Body("empty", JMissing, JMissing)

\* data.get(key) on the parsed object
BodyGet(body, key) == IF body.kind = "object" THEN body[key] ELSE JMissing

(* ------------------------------ tokens --------------------------------- *)
TOKEN_DAYS == 7

\* the text of a credential: a JWT with its header algorithm, the key its
\* signature was made with and its payload, or some other text
NoToken == [form |-> "empty", alg |-> <<>>, key |-> <<>>, hasSub |-> FALSE,
            sub |-> <<>>, exp |-> 0]
Garbage == [NoToken EXCEPT !.form = "garbage"]

\* jwt.encode({"sub": sub, "exp": exp}, key, algorithm=alg)
JwtEncode(sub, exp, key, alg) ==
    [form |-> "jwt", alg |-> alg, key |-> key, hasSub |-> TRUE, sub |-> sub, exp |-> exp]

\* an Authorization header: scheme word, then `spaces` blanks, then cred;
\* scheme "" with 0 spaces and no cred is the absent header
Header(scheme, spaces, cred) == [scheme |-> scheme, spaces |-> spaces, cred |-> cred]
NoHeader == Header("", 0, NoToken)
Bearer(tok) == Header("Bearer", 1, tok)

\* views._extract_token: None unless the header starts with "Bearer ";
\* the remainder after the first blank keeps any further blanks
_extract_token_ci(hdr) ==
    IF hdr.scheme \in {"Bearer", "bearer"} /\ hdr.spaces >= 1
    THEN [some |-> TRUE, lead |-> hdr.spaces - 1, cred |-> hdr.cred]
    ELSE [some |-> FALSE, lead |-> 0, cred |-> NoToken]

_extract_token(hdr) ==
    IF hdr.scheme = "Bearer" /\ hdr.spaces >= 1
    THEN [some |-> TRUE, lead |-> hdr.spaces - 1, cred |-> hdr.cred]
    ELSE [some |-> FALSE, lead |-> 0, cred |-> NoToken]

\* `not token`
TokenFalsy(t) == ~t.some \/ (t.lead = 0 /\ t.cred.form = "empty")

\* jwt.decode(token, key, algorithms=[alg]) at time `time`: the structure is
\* parsed first, then the algorithm and the signature are verified, and only
\* then is the exp claim compared with the clock
_decode_exp_first(t, key, alg, time) ==
    IF t.lead > 0 \/ t.cred.form # "jwt" THEN "DecodeError"
    ELSE IF t.cred.exp <= time THEN "ExpiredSignatureError"
    ELSE IF t.cred.alg # alg THEN "InvalidAlgorithmError"
    ELSE IF t.cred.key # key THEN "InvalidSignatureError"
    ELSE "ok"

_decode(t, key, alg, time) ==
    IF t.lead > 0 \/ t.cred.form # "jwt" THEN "DecodeError"
    ELSE IF t.cred.alg # alg THEN "InvalidAlgorithmError"
    ELSE IF t.cred.key # key THEN "InvalidSignatureError"
    ELSE IF t.cred.exp <= time THEN "ExpiredSignatureError"
    ELSE "ok"

\* the outcome of the jwt_required wrapper before the view is called
Gate(pass, status, detail, raised, userid) ==
    [pass |-> pass, status |-> status, detail |-> detail, raised |-> raised,
     userid |-> userid]

jwt_required(hdr, key, alg, time) ==
    LET token == _extract_token(hdr)
        d == _decode(token, key, alg, time)
    IN  IF TokenFalsy(token) THEN Gate(FALSE, 401, "Token missing", "none", <<>>)
        ELSE IF d = "ok"
             THEN (IF token.cred.hasSub
                   THEN Gate(TRUE, 200, "", "none", token.cred.sub)
                   ELSE Gate(FALSE, 500, "", "KeyError", <<>>))
        ELSE IF d = "ExpiredSignatureError"
             THEN Gate(FALSE, 401, "Token expired", "none", <<>>)
        ELSE Gate(FALSE, 401, "Invalid token", "none", <<>>)

(* ------------------------------ database ------------------------------- *)
\* where the driver raises during one handler run
DbFails == {"none", "connect", "cursor", "execute", "fetch", "curclose", "connclose"}

\* the try / finally around get_connection, cursor, execute, fetch and the
\* two close calls (views.py 146-159, 216-296): `cur.close(); conn.close()`
\* sit in one try, so conn.close() runs only after cur.close() returned
DbRun(fail) ==
    LET connected == fail # "connect"
        hasCur    == connected /\ fail # "cursor"
        executed  == hasCur /\ fail # "execute"
        fetched   == executed /\ fail # "fetch"
        curClosed == hasCur /\ fail # "curclose"
    IN  [opened  |-> IF connected THEN 1 ELSE 0,
         closed  |-> IF curClosed /\ fail # "connclose" THEN 1 ELSE 0,
         queries |-> IF hasCur THEN 1 ELSE 0,
         ok      |-> fetched]

\* acc_users rows (id, pass)
acc_users == { <<<<"u1">>, <<"p1">>>>, <<<<"u2">>, <<"p2">>>> }

(* ------------------------------ responses ------------------------------ *)
NoParam == [has |-> FALSE, v |-> <<>>]
Param(x) == [has |-> TRUE, v |-> x]

\* what one handler run did and returned.  raised names the exception that
\* left the handler ("none" when it returned a response), ran says that the
\* wrapped view body was entered, lookup / launch that the process table
\* was scanned / Popen was called and returned
NoResp ==
    [ep |-> "none", status |-> 0, detail |-> "", raised |-> "none", json |-> FALSE,
     ran |-> FALSE, hdr |-> NoHeader, body |-> NoBody, param |-> NoParam,
     token |-> NoToken, userid |-> <<>>, opened |-> 0, closed |-> 0,
     queries |-> 0, sql |-> "none", conn |-> NoParams, fetched |-> FALSE,
     rows |-> <<>>, data |-> <<>>,
     count |-> 0, lookup |-> FALSE, launch |-> FALSE, at |-> 0]

\* JsonResponse({"detail": detail}, status=status)
JsonError(r, status, detail) ==
    [r EXCEPT !.status = status, !.detail = detail, !.json = TRUE]

\* an exception leaves the handler: no response object is produced
Raise(r, exc) == [r EXCEPT !.status = 500, !.raised = exc, !.json = FALSE]

(* ------------------------------ pair_check ----------------------------- *)
\* views.pair_check lines 88-122
PairPasswordMatchesNoCase(j, pw) ==
    LET Lower(x) == IF x = <<"IMC-MOBILE">> THEN <<"imc-mobile">> ELSE x
    IN  j.t = "str" /\ Lower(j.s) = Lower(pw)

\* data.get("password") != PAIR_PASSWORD, negated: a JSON null, a number or
\* a missing key never equals the configured str
PairPasswordMatches(j, pw) == j.t = "str" /\ j.s = pw

pair_check(body, pw, exe, running, popenFails, time) ==
    LET r == [NoResp EXCEPT !.ep = "pair_check", !.body = body, !.at = time, !.ran = TRUE]
    IN  IF body.kind = "invalid" THEN JsonError(r, 400, "Invalid JSON")
        ELSE IF body.kind = "nonobject" THEN Raise(r, "AttributeError")
        ELSE IF ~PairPasswordMatches(BodyGet(body, "password"), pw)
             THEN JsonError(r, 401, "Invalid password")
        ELSE IF ~exe THEN JsonError(r, 404, "SyncService.exe not found")
        ELSE IF running
             THEN [r EXCEPT !.status = 200, !.json = TRUE, !.lookup = TRUE,
                            !.detail = "SyncService already running"]
        ELSE IF popenFails
             THEN [JsonError(r, 500, "Failed to start sync service") EXCEPT !.lookup = TRUE]
        ELSE [r EXCEPT !.status = 200, !.json = TRUE, !.lookup = TRUE, !.launch = TRUE,
                       !.detail = "SyncService launched successfully"]

(* ------------------------------ login ---------------------------------- *)
\* (data.get(key) or "").strip(): a truthy non-string has no strip()
FieldRaises(j) == Truthy(j) /\ j.t # "str"
FieldNoStrip(j) == IF Truthy(j) THEN j.s ELSE <<>>
Field(j) == IF Truthy(j) THEN Strip(j.s) ELSE <<>>

\* SELECT id, pass FROM acc_users WHERE id = ? AND pass = ?; fetchone()
CredentialRows(u, p) == { row \in acc_users : row[1] = u /\ row[2] = p }

\* payload["exp"] at login, views.py line 165
LoginExpShort(time) == time + TOKEN_DAYS - 1
LoginExp(time) == time + TOKEN_DAYS

\* payload["sub"] at login, views.py line 165
LoginSubRaw(body, userid) == BodyGet(body, "userid").s
LoginSub(body, userid) == userid

\* views.login lines 127-172
login(body, fail, key, alg, params, time) ==
    LET r  == [NoResp EXCEPT !.ep = "login", !.body = body, !.at = time, !.ran = TRUE]
        ju == BodyGet(body, "userid")
        jp == BodyGet(body, "password")
        userid   == Field(ju)
        password == Field(jp)
        db == DbRun(fail)
        rd == [r EXCEPT !.opened = db.opened, !.closed = db.closed,
                        !.queries = db.queries, !.conn = params,
                        !.sql = IF db.queries > 0 THEN "filtered" ELSE "none"]
    IN  IF body.kind = "invalid" \/ body.kind = "nonobject"
           \/ FieldRaises(ju) \/ FieldRaises(jp)
        THEN JsonError(r, 400, "Invalid JSON")
        ELSE IF userid = <<>> \/ password = <<>>
        THEN JsonError(r, 400, "userid & password required")
        ELSE IF ~db.ok THEN JsonError(rd, 500, "DB error")
        ELSE IF CredentialRows(userid, password) = {}
        THEN JsonError(rd, 401, "Invalid credentials")
        ELSE [rd EXCEPT !.status = 200, !.json = TRUE, !.detail = "Login successful",
                        !.userid = userid,
                        !.token = JwtEncode(LoginSub(body, userid), LoginExp(time), key, alg)]

(* ------------------------------ protected views ------------------------ *)
\* the response of the jwt_required wrapper when it does not call the view
Rejected(r, g) ==
    IF g.raised # "none" THEN Raise(r, g.raised) ELSE JsonError(r, g.status, g.detail)

\* views.verify_token lines 175-179
verify_token(hdr, key, alg, time) ==
    LET r == [NoResp EXCEPT !.ep = "verify_token", !.hdr = hdr, !.at = time]
        g == jwt_required(hdr, key, alg, time)
    IN  IF ~g.pass THEN Rejected(r, g)
        ELSE [r EXCEPT !.status = 200, !.json = TRUE, !.ran = TRUE, !.userid = g.userid]

\* the tables behind the four query endpoints: rows of (key, name)
QueryEndpoints == {"get_items", "get_dine_tables", "get_user_settings", "get_dine_categories"}

Table(ep) ==
    CASE ep = "get_items"           -> << <<"A", "Tea">>, <<"B", "Rice">> >>
      [] ep = "get_dine_tables"     -> << <<"B", "Window">>, <<"A", "Door">> >>
      [] ep = "get_user_settings"   -> << <<"A", "S1">>, <<"A", "S2">> >>
      [] ep = "get_dine_categories" -> << <<"A", "Food">> >>

\* SELECT .. WHERE key = ?  /  SELECT .. ; fetchall()
SelectRows(ep, filtered, v) ==
    IF filtered
    THEN SelectSeq(Table(ep), LAMBDA row : <<row[1]>> = v)
    ELSE Table(ep)

\* the loop that appends one record per row
ShapeReversed(rows) ==
    [i \in 1..Len(rows) |-> [key |-> rows[Len(rows) + 1 - i][1],
                             name |-> rows[Len(rows) + 1 - i][2]]]

Shape(rows) == [i \in 1..Len(rows) |-> [key |-> rows[i][1], name |-> rows[i][2]]]

\* `if item_code:` - the filter is used when the value is truthy
UseFilterIfPresent(param) == param.has

UseFilter(param) == param.has /\ param.v # <<>>

\* views.get_items / get_dine_tables / get_user_settings / get_dine_categories
query_view(ep, hdr, param, fail, key, alg, params, time) ==
    LET r  == [NoResp EXCEPT !.ep = ep, !.hdr = hdr, !.at = time]
        g  == jwt_required(hdr, key, alg, time)
        db == DbRun(fail)
        filtered == UseFilter(param)
        rd == [r EXCEPT !.ran = TRUE, !.userid = g.userid, !.param = param,
                        !.opened = db.opened, !.closed = db.closed,
                        !.queries = db.queries, !.conn = params,
                        !.sql = IF db.queries = 0 THEN "none"
                                ELSE IF filtered THEN "filtered" ELSE "unfiltered"]
        rows == SelectRows(ep, filtered, param.v)
        data == Shape(rows)
    IN  IF ~g.pass THEN Rejected(r, g)
        ELSE IF ~db.ok THEN JsonError(rd, 500, "error")
        ELSE [rd EXCEPT !.status = 200, !.json = TRUE, !.detail = "success",
                        !.fetched = TRUE, !.rows = rows,
                        !.data = data, !.count = Len(data)]

\* views.get_status lines 186-208
get_status(time) ==
    [NoResp EXCEPT !.ep = "get_status", !.status = 200, !.json = TRUE, !.ran = TRUE,
                   !.detail = "online", !.at = time]

(* ------------------------------ bind address --------------------------- *)
Wildcard == "0.0.0.0"
Loopback == "127.0.0.1"

\* the addresses appended by ipv4_candidates before de-duplication: the
\* local end of the UDP socket when connect and getsockname succeed, then
\* every getaddrinfo address that is neither empty nor the loopback
RawCands(outbound, host) ==
    (IF outbound.ok THEN <<outbound.ip>> ELSE <<>>)
    \o (IF host.ok
        THEN SelectSeq(host.list, LAMBDA ip : ip # "" /\ ip # Loopback)
        ELSE <<>>)

\* the seen / uniq loop, SyncService.py lines 84-88
RECURSIVE UniqFrom(_, _, _)
UniqFrom(cands, seen, uniq) ==
    IF cands = <<>> THEN uniq
    ELSE IF Head(cands) \in seen THEN UniqFrom(Tail(cands), seen, uniq)
    ELSE UniqFrom(Tail(cands), seen \cup {Head(cands)}, Append(uniq, Head(cands)))

\* SyncService.ipv4_candidates
ipv4_candidates(outbound, host) == UniqFrom(RawCands(outbound, host), {}, <<>>)

\* one pass of the loop of select_bind_ip: socket(), bind() and close() sit
\* in one try, so the candidate is returned only when all three succeeded
RECURSIVE SelectFromSilentFallback(_, _, _)
SelectFromSilentFallback(cands, probe, tried) ==
    IF cands = <<>>
    THEN [ip |-> Wildcard, tried |-> tried]
    ELSE IF probe[Head(cands)] = "ok"
    THEN [ip |-> Head(cands), tried |-> Append(tried, Head(cands))]
    ELSE SelectFromSilentFallback(Tail(cands), probe, Append(tried, Head(cands)))

RECURSIVE SelectFrom(_, _, _)
SelectFrom(cands, probe, tried) ==
    IF cands = <<>>
    THEN [ip |-> Wildcard, tried |-> Append(tried, Wildcard)]
    ELSE IF probe[Head(cands)] = "ok"
    THEN [ip |-> Head(cands), tried |-> Append(tried, Head(cands))]
    ELSE SelectFrom(Tail(cands), probe, Append(tried, Head(cands)))

\* SyncService.select_bind_ip
select_bind_ip(outbound, host, probe) ==
    SelectFrom(ipv4_candidates(outbound, host), probe, <<>>)

\* the network as main() finds it, and what select_bind_ip returned
Addrs == {"10.0.0.5", "192.168.1.2"}
HostAddrs == Addrs \cup {Loopback}
ProbeOutcomes == {"ok", "bind", "close"}

NoNet == [outbound |-> [ok |-> FALSE, ip |-> ""], host |-> [ok |-> FALSE, list |-> <<>>],
          probe |-> [a \in HostAddrs |-> "bind"], done |-> FALSE, raised |-> "none",
          ip |-> "", tried |-> <<>>]

SeqsUpTo(S, n) == UNION { [1..k -> S] : k \in 0..n }

NetInputs ==
    { [NoNet EXCEPT !.outbound = o, !.host = h, !.probe = p] :
        o \in {[ok |-> FALSE, ip |-> ""]} \cup { [ok |-> TRUE, ip |-> a] : a \in Addrs },
        h \in {[ok |-> FALSE, list |-> <<>>]}
              \cup { [ok |-> TRUE, list |-> l] : l \in SeqsUpTo(HostAddrs, MaxAddrs) },
        p \in [HostAddrs -> ProbeOutcomes] }

(* ------------------------------ request inputs ------------------------- *)
AllUnset == [k \in EnvKeys |-> Unset]
NoEnvFile == [exists |-> FALSE, lines |-> <<>>]
EnvFileOf(lines) == [exists |-> TRUE, lines |-> lines]
NoConfigFile == [exists |-> FALSE, keys |-> [k \in CfgKeys |-> Absent]]
ConfigFileOf(keys) == [exists |-> TRUE, keys |-> keys]

OtherSecret == <<"other-secret">>
ForgedExps == {0, 100}

\* tokens a client can make without logging in: signed with the server's
\* secret (with or without a sub claim), signed with another secret, unsigned
Forged(key, alg) ==
    { [JwtEncode(<<"u1">>, e, key, alg) EXCEPT !.hasSub = h] : e \in ForgedExps, h \in BOOLEAN }
    \cup { JwtEncode(<<"u1">>, e, OtherSecret, alg) : e \in ForgedExps }
    \cup { JwtEncode(<<"u1">>, e, <<>>, <<"none">>) : e \in ForgedExps }

\* the token the client obtained at its last successful login, with the
\* day it was issued and the userid text that was submitted
NoHeld == [tok |-> NoToken, iat |-> 0, userid |-> <<>>]
IssuedTokens == IF held.tok.form = "jwt" THEN {held.tok} ELSE {}

Headers ==
    {NoHeader, Header("Bearer", 0, NoToken), Header("Bearer", 1, NoToken)}
    \cup { Header(sch, 1, JwtEncode(<<"u1">>, 100, JWT_SECRET, JWT_ALGO)) : sch \in {"Basic", "bearer"} }
    \cup { Bearer(t) : t \in IssuedTokens \cup Forged(JWT_SECRET, JWT_ALGO) \cup {Garbage} }
    \cup { Header("Bearer", 2, t) : t \in IssuedTokens }

Params == {NoParam, Param(<<>>), Param(<<"A">>), Param(<<"Z">>)}

PairPasswords ==
    {JMissing, JNull, JNum(1), JStr(<<>>), JStr(<<"IMC-MOBILE">>), JStr(<<"imc-mobile">>),
     JStr(<<" ", "IMC-MOBILE", " ">>), JStr(<<"secret">>)}

PairBodies ==
    {Body("invalid", JMissing, JMissing), NoBody, Body("nonobject", JMissing, JMissing)}
    \cup { Body("object", JMissing, p) : p \in PairPasswords }

LoginUserids == {JMissing, JNum(5), JStr(<<"u1">>), JStr(<<" ", "u1", " ">>), JStr(<<" ">>), JStr(<<"u2">>)}
LoginPasswords == {JMissing, JNum(0), JStr(<<"p1">>), JStr(<<"p1", " ">>), JStr(<<"bad">>)}

LoginBodies ==
    {Body("invalid", JMissing, JMissing), NoBody, Body("nonobject", JMissing, JMissing)}
    \cup { Body("object", u, p) : u \in LoginUserids, p \in LoginPasswords }

(* ------------------------------ actions -------------------------------- *)
\* SyncService.main up to bootstrap_django: .env and the DB_* variables
Main ==
    /\ phase = "start"
    /\ environ' = MainEnv(environ, envFile, configFile)
    /\ phase' = "launched"
    /\ UNCHANGED <<net, pair, envFile, configFile, PAIR_PASSWORD, JWT_SECRET, JWT_ALGO,
                   now, held, exeExists, procs, launched, resp>>

\* the import of sync.views: the module-level constants are read once
ImportViews ==
    /\ phase = "launched"
    /\ PAIR_PASSWORD' = PairPasswordOf(environ)
    /\ JWT_SECRET' = JwtSecretOf(environ)
    /\ JWT_ALGO' = JwtAlgoOf(environ)
    /\ phase' = "serving"
    /\ UNCHANGED <<net, pair, environ, envFile, configFile, now, held, exeExists, procs,
                   launched, resp>>

PairCheck ==
    /\ phase = "serving"
    /\ \E body \in PairBodies, popenFails \in BOOLEAN :
         LET r == pair_check(body, PAIR_PASSWORD, exeExists, procs > 0, popenFails, now)
         IN  /\ resp' = r
             /\ procs' = IF r.launch THEN procs + 1 ELSE procs
             /\ launched' = IF r.launch THEN launched + 1 ELSE launched
    /\ UNCHANGED <<net, pair, phase, environ, envFile, configFile, PAIR_PASSWORD, JWT_SECRET,
                   JWT_ALGO, now, held, exeExists>>

Login ==
    /\ phase = "serving"
    /\ \E body \in LoginBodies, fail \in DbFails :
         \* the driver is reached only past the field checks
         /\ fail = "none" \/ (Field(BodyGet(body, "userid")) # <<>> /\ Field(BodyGet(body, "password")) # <<>>)
         /\ LET r == login(body, fail, JWT_SECRET, JWT_ALGO, ConnParams(environ, configFile), now)
            IN  /\ resp' = r
                /\ held' = IF r.token.form = "jwt"
                           THEN [tok |-> r.token, iat |-> now, userid |-> body.userid.s]
                           ELSE held
    /\ UNCHANGED <<net, pair, phase, environ, envFile, configFile, PAIR_PASSWORD, JWT_SECRET,
                   JWT_ALGO, now, exeExists, procs, launched>>

VerifyToken ==
    /\ phase = "serving"
    /\ \E hdr \in Headers : resp' = verify_token(hdr, JWT_SECRET, JWT_ALGO, now)
    /\ UNCHANGED <<net, pair, phase, environ, envFile, configFile, PAIR_PASSWORD, JWT_SECRET,
                   JWT_ALGO, now, held, exeExists, procs, launched>>

QueryView(ep) ==
    /\ phase = "serving"
    /\ \E hdr \in Headers, param \in Params, fail \in DbFails :
         \* the query string and the driver are read only past the token gate
         /\ jwt_required(hdr, JWT_SECRET, JWT_ALGO, now).pass \/ (param = NoParam /\ fail = "none")
         /\ resp' = query_view(ep, hdr, param, fail, JWT_SECRET, JWT_ALGO,
                            ConnParams(environ, configFile), now)
    /\ UNCHANGED <<net, pair, phase, environ, envFile, configFile, PAIR_PASSWORD, JWT_SECRET,
                   JWT_ALGO, now, held, exeExists, procs, launched>>

GetItems == QueryView("get_items")
GetDineTables == QueryView("get_dine_tables")
GetUserSettings == QueryView("get_user_settings")
GetDineCategories == QueryView("get_dine_categories")

GetStatus ==
    /\ phase = "serving"
    /\ resp' = get_status(now)
    /\ UNCHANGED <<net, pair, phase, environ, envFile, configFile, PAIR_PASSWORD, JWT_SECRET,
                   JWT_ALGO, now, held, exeExists, procs, launched>>

\* the clock advances by one day
Tick ==
    /\ now < MaxNow
    /\ now' = now + 1
    /\ UNCHANGED <<net, pair, phase, environ, envFile, configFile, PAIR_PASSWORD, JWT_SECRET,
                   JWT_ALGO, held, exeExists, procs, launched, resp>>

\* SyncService.main line 137: the bind address is chosen once
SelectBindIp ==
    /\ phase = "launched"
    /\ ~net.done
    /\ LET r == select_bind_ip(net.outbound, net.host, net.probe)
       IN  net' = [net EXCEPT !.done = TRUE, !.ip = r.ip, !.tried = r.tried]
    /\ UNCHANGED <<phase, environ, envFile, configFile, PAIR_PASSWORD, JWT_SECRET,
                   JWT_ALGO, now, held, exeExists, procs, launched, resp, pair>>

(* ------------------------------ concurrent pairing --------------------- *)
\* a pair_check request in progress: pc is "scan" before the process table
\* is read, "popen" once no instance was seen, "done" when it has returned
PairReq(pc, body, status, detail) ==
    [pc |-> pc, body |-> body, status |-> status, detail |-> detail]

\* views.pair_check lines 89-106: parse, password check, executable check
PairArrive ==
    /\ phase = "serving"
    /\ Len(pair) < MaxReqs
    /\ \E body \in PairBodies :
         LET r == pair_check(body, PAIR_PASSWORD, exeExists, TRUE, FALSE, now)
         IN  pair' = Append(pair,
                 IF r.lookup THEN PairReq("scan", body, 0, "")
                 ELSE PairReq("done", body, r.status, r.detail))
    /\ UNCHANGED <<phase, environ, envFile, configFile, PAIR_PASSWORD, JWT_SECRET,
                   JWT_ALGO, now, held, exeExists, procs, launched, resp, net>>

\* views.pair_check lines 108-114: psutil.process_iter
PairScan ==
    /\ \E i \in 1..Len(pair) :
         /\ pair[i].pc = "scan"
         /\ pair' = [pair EXCEPT ![i] =
                IF procs > 0
                THEN PairReq("done", pair[i].body, 200, "SyncService already running")
                ELSE PairReq("popen", pair[i].body, 0, "")]
    /\ UNCHANGED <<phase, environ, envFile, configFile, PAIR_PASSWORD, JWT_SECRET,
                   JWT_ALGO, now, held, exeExists, procs, launched, resp, net>>

\* views.pair_check lines 116-122: subprocess.Popen
PairPopen ==
    /\ \E i \in 1..Len(pair), popenFails \in BOOLEAN :
         /\ pair[i].pc = "popen"
         /\ IF popenFails
            THEN /\ pair' = [pair EXCEPT ![i] =
                        PairReq("done", pair[i].body, 500, "Failed to start sync service")]
                 /\ UNCHANGED <<procs, launched>>
            ELSE /\ pair' = [pair EXCEPT ![i] =
                        PairReq("done", pair[i].body, 200, "SyncService launched successfully")]
                 /\ procs' = procs + 1
                 /\ launched' = launched + 1
    /\ UNCHANGED <<phase, environ, envFile, configFile, PAIR_PASSWORD, JWT_SECRET,
                   JWT_ALGO, now, held, exeExists, resp, net>>

(* ------------------------------ specifications ------------------------- *)
\* the state before main() runs, for a given choice of startup inputs
Start(envs, files, cfgs, exes, running, day) ==
    /\ phase = "start"
    /\ environ \in envs
    /\ envFile \in files
    /\ configFile \in cfgs
    /\ PAIR_PASSWORD = <<>>
    /\ JWT_SECRET = <<>>
    /\ JWT_ALGO = <<>>
    /\ now = day
    /\ held = NoHeld
    /\ exeExists \in exes
    /\ procs \in running
    /\ launched = 0
    /\ resp = NoResp

\* a default installation: nothing set in the environment, no files
\* no bind address chosen yet, no pair request in progress
Idle == net = NoNet /\ pair = <<>>

Init == Start({AllUnset}, {NoEnvFile}, {NoConfigFile}, {TRUE}, {1}, 0) /\ Idle

\* the same, with the executable present or missing and the service
\* process running or not
InitApi == Start({AllUnset}, {NoEnvFile}, {NoConfigFile}, BOOLEAN, {0, 1}, 1) /\ Idle

\* PAIR_PASSWORD and JWT_SECRET unset, set to a value or set to the empty
\* string, in the process environment and in the .env file
BootEnvs ==
    { [AllUnset EXCEPT !["PAIR_PASSWORD"] = p, !["JWT_SECRET"] = j] :
        p \in {Unset, EnvVal(<<>>), EnvVal(<<"secret">>)},
        j \in {Unset, EnvVal(<<>>), EnvVal(<<"k1">>)} }

BootEnvFiles ==
    {NoEnvFile,
     EnvFileOf(<< <<"PAIR_PASSWORD", "=">> >>),
     EnvFileOf(<< <<"JWT_SECRET", "=", " ", "#", "unset">> >>),
     EnvFileOf(<< <<"#", " ", "pairing">>, <<"PAIR_PASSWORD", " ", "=", " ", "secret", " ", "#", "x">> >>)}

InitBoot == Start(BootEnvs, BootEnvFiles, {NoConfigFile}, {TRUE}, {1}, 0) /\ Idle

\* each of DB_DSN / DB_UID / DB_PWD given or not in the .env file, each of
\* dsn / db_uid / db_pwd given or not in config.json
CfgEnvLines(ks) ==
    (IF "DB_DSN" \in ks THEN << <<"DB_DSN", "=", "envdsn", " ", "#", "live">> >> ELSE << >>)
    \o (IF "DB_UID" \in ks THEN << <<"DB_UID", "=", "envuid">> >> ELSE << >>)
    \o (IF "DB_PWD" \in ks THEN << <<"DB_PWD", "=", "envpwd">> >> ELSE << >>)

CfgEnvFiles ==
    {NoEnvFile} \cup { EnvFileOf(CfgEnvLines(ks)) : ks \in SUBSET {"DB_DSN", "DB_UID", "DB_PWD"} }

CfgValue(k) ==
    CASE k = "dsn" -> <<"cfgdsn">> [] k = "db_uid" -> <<"cfguid">> [] k = "db_pwd" -> <<"cfgpwd">>

CfgFiles ==
    {NoConfigFile}
    \cup { ConfigFileOf([k \in CfgKeys |-> IF k \in ks THEN CfgVal(CfgValue(k)) ELSE Absent]) :
             ks \in SUBSET CfgKeys }

InitCfg == Start({AllUnset}, CfgEnvFiles, CfgFiles, {TRUE}, {1}, 0) /\ Idle

\* a default installation on every network the selector can meet
InitNet ==
    /\ Start({AllUnset}, {NoEnvFile}, {NoConfigFile}, {TRUE}, {1}, 0)
    /\ net \in NetInputs
    /\ pair = <<>>

\* login and token validation as the clock advances
Next ==
    \/ Main
    \/ ImportViews
    \/ Login
    \/ VerifyToken
    \/ Tick

Spec == Init /\ [][Next]_vars

\* the eight endpoints of sync/urls.py at one instant
NextApi ==
    \/ Main
    \/ ImportViews
    \/ PairCheck
    \/ Login
    \/ VerifyToken
    \/ GetStatus
    \/ GetItems
    \/ GetDineTables
    \/ GetUserSettings
    \/ GetDineCategories

SpecApi == InitApi /\ [][NextApi]_vars

\* startup with the secrets configured in every way, then pairing and
\* token validation
NextBoot ==
    \/ Main
    \/ ImportViews
    \/ PairCheck
    \/ VerifyToken

SpecBoot == InitBoot /\ [][NextBoot]_vars

\* startup with the database parameters configured in every way, then a
\* handler that opens a connection
NextCfg ==
    \/ Main
    \/ ImportViews
    \/ Login

SpecCfg == InitCfg /\ [][NextCfg]_vars

\* startup up to the choice of the bind address
NextNet ==
    \/ Main
    \/ SelectBindIp

SpecNet == InitNet /\ [][NextNet]_vars

\* a default installation with the executable in place and no SyncService
\* process running
InitConc == Start({AllUnset}, {NoEnvFile}, {NoConfigFile}, {TRUE}, {0}, 0) /\ Idle

\* pair_check requests served by concurrent threads, one step at a time
NextConc ==
    \/ Main
    \/ ImportViews
    \/ PairArrive
    \/ PairScan
    \/ PairPopen

SpecConc == InitConc /\ [][NextConc]_vars

TypeOK ==
    /\ phase \in {"start", "launched", "serving"}
    /\ now \in 0..MaxNow
    /\ held.iat \in 0..MaxNow

(* ------------------------------ C1 ------------------------------------- *)
\* the submitted pair, trimmed, is a row of acc_users
MatchesStoredRow(body) ==
    /\ body.kind = "object"
    /\ body.userid.t = "str" /\ body.password.t = "str"
    /\ <<Strip(body.userid.s), Strip(body.password.s)>> \in acc_users

\* C1: a login whose (userid, password) matches a stored row, and whose
\* database read did not fail, returns a token; presenting that token as
\* 'Bearer <token>' at the same instant passes the jwt_required gate with
\* subject equal to the trimmed userid that was submitted, and a
\* /verify-token request made with it at that instant answers 200 with
\* that userid.
C1_LoginTokenValidates ==
    /\ (resp.ep = "login" /\ MatchesStoredRow(resp.body) /\ resp.status # 500)
         => /\ resp.status = 200
            /\ resp.token.form = "jwt"
            /\ jwt_required(Bearer(resp.token), JWT_SECRET, JWT_ALGO, resp.at).pass
            /\ jwt_required(Bearer(resp.token), JWT_SECRET, JWT_ALGO, resp.at).userid
                 = Strip(resp.body.userid.s)
    /\ (resp.ep = "verify_token" /\ held.tok.form = "jwt"
        /\ resp.hdr = Bearer(held.tok) /\ resp.at = held.iat)
         => /\ resp.status = 200
            /\ resp.raised = "none"
            /\ resp.userid = Strip(held.userid)

\* a token obtained with a userid that had surrounding blanks is verified
\* on the day it was issued
C1_Witness ==
    /\ resp.ep = "verify_token"
    /\ resp.status = 200
    /\ held.userid = <<" ", "u1", " ">>
    /\ resp.hdr = Bearer(held.tok)
    /\ resp.at = held.iat
    /\ resp.userid = <<"u1">>

(* ------------------------------ C2 ------------------------------------- *)
\* C2: a token issued by login on day d is answered 401 'Token expired'
\* (never 'Invalid token') by the gate on every day after d + 7, and is
\* never answered 'Token expired' on a day before d + 7.
C2_ExpiredAfterSevenDays ==
    (resp.ep = "verify_token" /\ held.tok.form = "jwt" /\ resp.hdr = Bearer(held.tok))
      => /\ resp.at > held.iat + TOKEN_DAYS
              => (resp.status = 401 /\ resp.detail = "Token expired")
         /\ resp.at < held.iat + TOKEN_DAYS
              => resp.detail # "Token expired"

\* a login token is presented eight days after it was issued
C2_Witness ==
    /\ resp.ep = "verify_token"
    /\ held.tok.form = "jwt"
    /\ resp.hdr = Bearer(held.tok)
    /\ resp.at > held.iat + TOKEN_DAYS
    /\ resp.detail = "Token expired"

(* ------------------------------ C3 ------------------------------------- *)
\* the header carries a non-empty string after 'Bearer '
PresentsToken(hdr) ==
    hdr.scheme = "Bearer" /\ hdr.spaces >= 1 /\ ~(hdr.spaces = 1 /\ hdr.cred.form = "empty")

\* the presented string is not a JWT, carries no signature, or was signed
\* with a secret other than the server's
MalformedUnsignedOrTampered(hdr) ==
    \/ hdr.spaces > 1
    \/ hdr.cred.form # "jwt"
    \/ hdr.cred.alg = <<"none">>
    \/ hdr.cred.key # JWT_SECRET

\* C3: a string presented as 'Bearer <string>' that is malformed, unsigned
\* or signed with a different secret is answered 401 'Invalid token', never
\* 'Token expired', whatever exp claim it carries.
C3_TamperedIsInvalid ==
    (resp.ep = "verify_token" /\ PresentsToken(resp.hdr)
     /\ MalformedUnsignedOrTampered(resp.hdr))
      => (resp.status = 401 /\ resp.detail = "Invalid token")

\* a token signed with another secret whose exp claim is already in the past
C3_Witness ==
    /\ resp.ep = "verify_token"
    /\ resp.hdr.cred.form = "jwt"
    /\ resp.hdr.cred.key = OtherSecret
    /\ resp.hdr.cred.exp < resp.at
    /\ resp.detail = "Invalid token"

(* ------------------------------ C4 ------------------------------------- *)
ProtectedEndpoints == {"verify_token"} \cup QueryEndpoints

\* the header carries a JWT signed by the server's secret and algorithm
SignedByServer(hdr) ==
    /\ PresentsToken(hdr) /\ hdr.spaces = 1
    /\ hdr.cred.form = "jwt"
    /\ hdr.cred.alg = JWT_ALGO /\ hdr.cred.key = JWT_SECRET

ValidToken(hdr, time) == SignedByServer(hdr) /\ hdr.cred.exp > time /\ hdr.cred.hasSub

\* C4: on each token-protected endpoint a request whose Authorization
\* header is absent or not 'Bearer <token>' is answered 401 'Token
\* missing', a request with an expired token 401 'Token expired', and no
\* request without a valid token enters the view body or opens a database
\* connection.
C4_GateBeforeView ==
    resp.ep \in ProtectedEndpoints
      => /\ ~PresentsToken(resp.hdr)
              => (resp.status = 401 /\ resp.detail = "Token missing")
         /\ (SignedByServer(resp.hdr) /\ resp.hdr.cred.exp <= resp.at)
              => (resp.status = 401 /\ resp.detail = "Token expired")
         /\ ~ValidToken(resp.hdr, resp.at)
              => (~resp.ran /\ resp.opened = 0 /\ resp.queries = 0)

\* /items/ answered 'Token expired' without entering the view
C4_Witness ==
    /\ resp.ep = "get_items"
    /\ SignedByServer(resp.hdr)
    /\ resp.detail = "Token expired"
    /\ ~resp.ran

(* ------------------------------ C5 ------------------------------------- *)
\* C5: no exception leaves a handler, and every failure is answered with a
\* JSON error body.
C5_NoExceptionEscapes ==
    /\ resp.raised = "none"
    /\ resp.status >= 400 => resp.json

(* ------------------------------ C6 ------------------------------------- *)
\* C6: login and the four query endpoints execute at most one query, and
\* every connection they opened is closed when the handler returns.
C6_ConnectionsReleased ==
    resp.ep \in {"login"} \cup QueryEndpoints
      => (resp.queries <= 1 /\ resp.closed = resp.opened)

(* ------------------------------ C7 ------------------------------------- *)
\* environment variable, else configuration-file value, else fallback
Precedence(envKey, cfgKey, fallback) ==
    LET e == load_env(AllUnset, envFile)
    IN  IF e[envKey].set THEN e[envKey].v
        ELSE IF configFile.exists /\ configFile.keys[cfgKey].has
             THEN configFile.keys[cfgKey].v
        ELSE fallback

\* C7: in a process started through main(), each of DSN, user id and
\* password that get_connection connects with is the environment value
\* when set, else the config.json value when present, else the fallback.
C7_ConnectPrecedence ==
    (resp.ep = "login" /\ resp.status # 400)
      => /\ resp.conn.dsn = Precedence("DB_DSN", "dsn", FallbackDsn)
         /\ resp.conn.uid = Precedence("DB_UID", "db_uid", FallbackUid)
         /\ resp.conn.pwd = Precedence("DB_PWD", "db_pwd", FallbackPwd)

(* ------------------------------ C8 ------------------------------------- *)
\* C8: while requests are served neither the pairing password nor the
\* signing secret is empty, and a pair request with password "" fails.
C8_SecretsNeverEmpty ==
    /\ phase = "serving" => (PAIR_PASSWORD # <<>> /\ JWT_SECRET # <<>>)
    /\ (resp.ep = "pair_check" /\ resp.body.kind = "object"
        /\ resp.body.password = JStr(<<>>))
         => resp.status = 401

(* ------------------------------ C9 ------------------------------------- *)
\* the value submitted under "password" is the configured secret itself
ExactPassword(body) ==
    /\ BodyGet(body, "password").t = "str"
    /\ BodyGet(body, "password").s = PAIR_PASSWORD

\* C9: a pair request whose body is a JSON object (or empty) gets past the
\* password check only when the submitted value is exactly the configured
\* secret; any other value is answered 401 'Invalid password' with no
\* process lookup and no launch.
C9_PairExactMatch ==
    (resp.ep = "pair_check" /\ resp.body.kind \in {"object", "empty"})
      => /\ ~ExactPassword(resp.body)
              => /\ resp.status = 401
                 /\ resp.detail = "Invalid password"
                 /\ ~resp.lookup
                 /\ ~resp.launch
         /\ resp.status = 200 => ExactPassword(resp.body)

\* the secret in lower case is refused
C9_Witness ==
    /\ resp.ep = "pair_check"
    /\ PAIR_PASSWORD = <<"IMC-MOBILE">>
    /\ resp.body.password = JStr(<<"imc-mobile">>)
    /\ resp.status = 401
    /\ launched = 0

(* ------------------------------ C10 ------------------------------------ *)
\* a SyncService process was running when the last pair request arrived
WasRunning == procs > 0 /\ ~resp.launch

\* C10: with the right password, a running instance means success and no
\* launch whether or not the executable exists; 404 is returned only when
\* no instance is running.
C10_RunningCheckedFirst ==
    (resp.ep = "pair_check" /\ resp.body.kind = "object" /\ ExactPassword(resp.body))
      => /\ WasRunning => (resp.status = 200 /\ ~resp.launch)
         /\ resp.status = 404 => ~WasRunning

(* ------------------------------ C11 ------------------------------------ *)
\* the position of the first occurrence of a in s
FirstPos(s, a) == CHOOSE i \in 1..Len(s) : s[i] = a /\ \A j \in 1..(i - 1) : s[j] # a

\* u lists every address of raw once, in the order of first appearance
FirstSeenOrder(u, raw) ==
    /\ { u[i] : i \in 1..Len(u) } = { raw[i] : i \in 1..Len(raw) }
    /\ \A i, j \in 1..Len(u) : i # j => u[i] # u[j]
    /\ \A i, j \in 1..Len(u) : i < j => FirstPos(raw, u[i]) < FirstPos(raw, u[j])

\* C11: select_bind_ip never raises; it returns the first candidate, in
\* de-duplicated first-seen order, whose probe succeeds, with 'tried' the
\* candidates probed up to and including it, or '0.0.0.0' with 'tried' all
\* candidates followed by '0.0.0.0' when no probe succeeds.
C11_SelectBindIp ==
    net.done =>
      LET u  == ipv4_candidates(net.outbound, net.host)
          ok == { i \in 1..Len(u) : net.probe[u[i]] = "ok" }
      IN  /\ net.raised = "none"
          /\ FirstSeenOrder(u, RawCands(net.outbound, net.host))
          /\ ok # {} =>
               \E i \in ok : /\ \A j \in ok : i <= j
                             /\ net.ip = u[i]
                             /\ net.tried = SubSeq(u, 1, i)
          /\ ok = {} => (net.ip = Wildcard /\ net.tried = u \o <<Wildcard>>)

\* an address reported twice is probed once and fails, the next one binds
C11_Witness ==
    /\ net.done
    /\ Len(RawCands(net.outbound, net.host)) = 3
    /\ Len(net.tried) = 2
    /\ net.probe[net.tried[1]] = "close"
    /\ net.ip = net.tried[2]

\* no probe succeeds and the wildcard is the last entry tried
C11_WitnessFallback ==
    /\ net.done
    /\ net.ip = Wildcard
    /\ Len(net.tried) = 3

(* ------------------------------ C12 ------------------------------------ *)
\* C12: a query endpoint called with a valid token whose fetchall returned
\* answers 'success' with one record per fetched row, in the order of the
\* rows, and count equal to the number of records; no row gives count 0
\* and an empty collection.
C12_RowsInOrder ==
    (resp.ep \in QueryEndpoints /\ ValidToken(resp.hdr, resp.at) /\ resp.fetched)
      => /\ resp.status = 200
         /\ resp.detail = "success"
         /\ Len(resp.data) = Len(resp.rows)
         /\ \A i \in 1..Len(resp.rows) :
              /\ resp.data[i].key = resp.rows[i][1]
              /\ resp.data[i].name = resp.rows[i][2]
         /\ resp.count = Len(resp.data)
         /\ resp.rows = <<>> => (resp.count = 0 /\ resp.data = <<>>)

\* /items/?item_code=Z matches no row
C12_Witness ==
    /\ resp.ep = "get_items"
    /\ resp.param = Param(<<"Z">>)
    /\ resp.fetched
    /\ resp.status = 200
    /\ resp.count = 0
    /\ resp.data = <<>>

\* /dine-tables/ returns its two rows in table order
C12_WitnessOrder ==
    /\ resp.ep = "get_dine_tables"
    /\ resp.status = 200
    /\ resp.count = 2
    /\ resp.data[1].key = "B"
    /\ resp.data[2].key = "A"

(* ------------------------------ C13 ------------------------------------ *)
\* the text of a submitted field after trimming; a missing, null or zero
\* value counts as the empty string
Trimmed(j) == IF j.t = "str" THEN Strip(j.s) ELSE <<>>

\* the body parsed to an object whose two fields can be trimmed
Trimmable(body) ==
    /\ body.kind \in {"object", "empty"}
    /\ ~(BodyGet(body, "userid").t = "num" /\ BodyGet(body, "userid").n # 0)
    /\ ~(BodyGet(body, "password").t = "num" /\ BodyGet(body, "password").n # 0)

\* C13: once login has trimmed userid and password, an empty one (missing,
\* empty or blank-only) is answered 400 'userid & password required'
\* before any connection is opened or query executed; every 400 of login
\* precedes the database; a token is issued only when the credential query
\* returned a matching row.
C13_LoginFailsFast ==
    resp.ep = "login"
      => /\ (/\ Trimmable(resp.body)
             /\ \/ Trimmed(BodyGet(resp.body, "userid")) = <<>>
                \/ Trimmed(BodyGet(resp.body, "password")) = <<>>)
              => /\ resp.status = 400
                 /\ resp.detail = "userid & password required"
                 /\ resp.opened = 0 /\ resp.queries = 0
                 /\ resp.token = NoToken
         /\ resp.status = 400 => (resp.opened = 0 /\ resp.queries = 0)
         /\ resp.token # NoToken
              => /\ resp.status = 200
                 /\ resp.queries = 1
                 /\ << Trimmed(BodyGet(resp.body, "userid")),
                       Trimmed(BodyGet(resp.body, "password")) >> \in acc_users

\* a blank-only userid with a stored password is refused before the database
C13_Witness ==
    /\ resp.ep = "login"
    /\ resp.body.userid = JStr(<<" ">>)
    /\ resp.body.password = JStr(<<"p1">>)
    /\ resp.status = 400
    /\ resp.detail = "userid & password required"
    /\ resp.opened = 0

(* ------------------------------ C14 ------------------------------------ *)
\* C14 as stated: the filtered SELECT runs whenever the filter key is
\* present in the query string, whatever its value, and the unfiltered
\* SELECT only when the key is absent.
C14_FilterWhenPresent ==
    (resp.ep \in QueryEndpoints /\ resp.queries = 1)
      => /\ resp.param.has => resp.sql = "filtered"
         /\ ~resp.param.has => resp.sql = "unfiltered"

\* C14 amended: the filtered SELECT runs whenever the filter key is present
\* with a non-empty value; the unfiltered SELECT runs when the key is
\* absent or its value is the empty string, and then returns every row.
C14_FilterWhenNonEmpty ==
    (resp.ep \in QueryEndpoints /\ resp.queries = 1)
      => /\ (resp.param.has /\ resp.param.v # <<>>) => resp.sql = "filtered"
         /\ (~resp.param.has \/ resp.param.v = <<>>)
              => /\ resp.sql = "unfiltered"
                 /\ resp.fetched => resp.rows = Table(resp.ep)

\* /items/?item_code= runs the unfiltered SELECT
C14_Witness ==
    /\ resp.ep = "get_items"
    /\ resp.param = Param(<<>>)
    /\ resp.sql = "unfiltered"
    /\ resp.status = 200
    /\ resp.count = 2

(* ------------------------------ C15 ------------------------------------ *)
\* C15: whatever the interleaving of concurrent pair requests carrying the
\* correct password, starting with no SyncService process running, at most
\* one SyncService process is launched in total.
C15_AtMostOneLaunch == launched <= 1

====
